---- MODULE Spec2Model ----
(***************************************************************************)
(* A model of build_documentation.py: the module path resolver            *)
(* (file2module), the render session (RenderSession.load with             *)
(* _apply_overrides, RenderSession.render) and the entry orchestration     *)
(* (main).  Strings are sequences of one-character strings, so that the    *)
(* string operations of the code are computed, not assumed.                *)
(***************************************************************************)
EXTENDS Naturals, Integers, Sequences, FiniteSets, TLC

VARIABLES
    file, path, result,              \* file2module: arguments and return value
    package_dir, docs_dir,           \* main: arguments, then normalised values
    skip_files, src_arg, walk,       \* main: skip list, src_files argument, os.walk listing
    package_name, src_files,         \* main: locals
    idx, pc,                         \* main: loop position and program position
    modules, output_file,            \* main: locals of the loop body
    session, pydocmd,                \* main: the RenderSession and the configuration load() returned
    loaded, config, error,           \* load(): loader list before the overrides, engine object, exception raised
    log, dropped,                    \* history: calls made so far, files the loop skipped
    made, written,                   \* file system: directories created, files rendered
    errAt, errLen                    \* history: index of the file that raised, length of log then

vars == <<file, path, result, package_dir, docs_dir, skip_files, src_arg, walk,
          package_name, src_files, idx, pc, modules, output_file, session,
          pydocmd, loaded, config, error, log, dropped, made, written, errAt,
          errLen>>

(***************************************************************************)
(* Bounds of the model.                                                    *)
(***************************************************************************)
MaxStem == 4        \* longest relative path (without suffix) given to file2module
MaxFiles == 2       \* longest explicit src_files list
MaxDirFiles == 2    \* most files listed in one directory
MaxSubdirs == 2     \* most sub-directories of the package directory
MaxDirLen == 3      \* longest package_dir argument when all strings are tried

(***************************************************************************)
(* Optional values: None is the empty sequence, Some(x) a one-element one. *)
(***************************************************************************)
None == <<>>
Some(x) == <<x>>
IsNone(o) == Len(o) = 0
Val(o) == o[1]

SeqsUpTo(S, n) == UNION {[1..k -> S] : k \in 0..n}

NoRepeatSeqs(S, n) ==
    {q \in SeqsUpTo(S, n) : \A i, j \in 1..Len(q) : i # j => q[i] # q[j]}

(***************************************************************************)
(* Python string operations, as the code uses them.                        *)
(***************************************************************************)
PY == <<".", "p", "y">>
MD == <<".", "m", "d">>
SEP == <<"/">>

\* str.startswith
startswith(s, p) == Len(p) <= Len(s) /\ SubSeq(s, 1, Len(p)) = p

\* str.endswith
endswith(s, x) == Len(x) <= Len(s) /\ SubSeq(s, Len(s) - Len(x) + 1, Len(s)) = x

\* str.removeprefix
removeprefix(s, p) == IF startswith(s, p) THEN SubSeq(s, Len(p) + 1, Len(s)) ELSE s

\* str.removesuffix (a no-op for the empty suffix)
removesuffix(s, x) ==
    IF Len(x) > 0 /\ endswith(s, x) THEN SubSeq(s, 1, Len(s) - Len(x)) ELSE s

\* str.split("/"): the pieces between separators, empty pieces included
RECURSIVE split(_)
split(s) ==
    IF \A i \in 1..Len(s) : s[i] # "/"
    THEN <<s>>
    ELSE LET i == CHOOSE j \in 1..Len(s) :
                      s[j] = "/" /\ \A k \in 1..(j - 1) : s[k] # "/"
         IN  <<SubSeq(s, 1, i - 1)>> \o split(SubSeq(s, i + 1, Len(s)))

\* ".".join(parts)
RECURSIVE join(_)
join(parts) ==
    IF Len(parts) = 0 THEN <<>>
    ELSE IF Len(parts) = 1 THEN parts[1]
    ELSE parts[1] \o <<".">> \o join(Tail(parts))

\* [part for part in parts if part]
NonEmptyParts(parts) == SelectSeq(parts, LAMBDA part : Len(part) > 0)

\* str.replace(old, new) for a non-empty old: every non-overlapping
\* occurrence, left to right
RECURSIVE replace(_, _, _)
replace(s, old, new) ==
    IF Len(s) < Len(old) THEN s
    ELSE IF startswith(s, old)
         THEN new \o replace(SubSeq(s, Len(old) + 1, Len(s)), old, new)
         ELSE <<s[1]>> \o replace(Tail(s), old, new)

\* a variant of the substring test that only looks at the start of the path
containsAtStart(s, sub) == startswith(s, sub)

\* sub in s
contains(s, sub) ==
    \E i \in 0..(Len(s) - Len(sub)) :
        Len(sub) <= Len(s) /\ SubSeq(s, i + 1, i + Len(sub)) = sub

\* index of the last "/" of s, 0 when there is none
LastSep(s) ==
    IF \E i \in 1..Len(s) : s[i] = "/"
    THEN CHOOSE i \in 1..Len(s) : s[i] = "/" /\ \A k \in (i + 1)..Len(s) : s[k] # "/"
    ELSE 0

\* os.path.basename
basename(p) == SubSeq(p, LastSep(p) + 1, Len(p))

\* str.rstrip("/")
RECURSIVE rstripSep(_)
rstripSep(s) ==
    IF Len(s) > 0 /\ s[Len(s)] = "/" THEN rstripSep(SubSeq(s, 1, Len(s) - 1)) ELSE s

\* os.path.dirname (posixpath): the head up to the last "/", its trailing
\* separators stripped unless it consists of separators only
dirname(p) ==
    LET head == SubSeq(p, 1, LastSep(p))
    IN  IF Len(head) > 0 /\ (\E i \in 1..Len(head) : head[i] # "/")
        THEN rstripSep(head) ELSE head

\* os.path.join(a, b) (posixpath)
ospathjoin(a, b) ==
    IF startswith(b, SEP) THEN b
    ELSE IF Len(a) = 0 \/ endswith(a, SEP) THEN a \o b
    ELSE a \o SEP \o b

(***************************************************************************)
(* file2module                                                             *)
(***************************************************************************)
\* a variant that keeps the empty segments when joining
file2moduleKeepEmpty(f, p) == join(split(removesuffix(removeprefix(f, p), PY)))

file2module(f, p) ==
    join(NonEmptyParts(split(removesuffix(removeprefix(f, p), PY))))

(***************************************************************************)
(* RenderSession                                                           *)
(***************************************************************************)
\* RenderSession.__init__: the fields, in the order of the parameters
NewSession(conf, render_toc, search_path, mods, packages, py2) ==
    [config |-> conf, render_toc |-> render_toc, search_path |-> search_path,
     modules |-> mods, packages |-> packages, py2 |-> py2]

\* truth value of an optional list: None and the empty list are both false
Truthy(o) == ~IsNone(o) /\ Len(Val(o)) > 0

\* the condition under which _apply_overrides looks for a loader
OverridesRequested(sess) ==
    \/ Truthy(sess.modules)
    \/ Truthy(sess.packages)
    \/ Truthy(sess.search_path)
    \/ ~IsNone(sess.py2)

IsPython(ld) == ld.python

\* next(... for conf_loader in config.loaders if isinstance(...), None):
\* the index of the first Python loader, 0 when there is none
FirstPython(loaders) ==
    IF \E i \in 1..Len(loaders) : IsPython(loaders[i])
    THEN CHOOSE i \in 1..Len(loaders) :
             IsPython(loaders[i]) /\ \A k \in 1..(i - 1) : ~IsPython(loaders[k])
    ELSE 0

\* the assignments made to the loader that was found
Overridden(sess, ld) ==
    [python |-> ld.python,
     modules |-> IF Truthy(sess.modules) THEN Val(sess.modules) ELSE ld.modules,
     packages |-> IF Truthy(sess.packages) THEN Val(sess.packages) ELSE ld.packages,
     search_path |-> IF Truthy(sess.search_path) THEN Val(sess.search_path)
                     ELSE ld.search_path,
     print_function |-> IF ~IsNone(sess.py2) THEN ~Val(sess.py2)
                        ELSE ld.print_function]

\* a variant that leaves the configuration alone when no loader is found
apply_overridesNoRaise(sess, loaders) ==
    IF OverridesRequested(sess) /\ FirstPython(loaders) # 0
    THEN [raised |-> FALSE,
          loaders |-> [loaders EXCEPT ![FirstPython(loaders)] = Overridden(sess, @)]]
    ELSE [raised |-> FALSE, loaders |-> loaders]

\* RenderSession._apply_overrides: whether it raises ValueError, and the
\* loader list afterwards
apply_overrides(sess, loaders) ==
    IF ~OverridesRequested(sess) THEN [raised |-> FALSE, loaders |-> loaders]
    ELSE IF FirstPython(loaders) = 0 THEN [raised |-> TRUE, loaders |-> loaders]
    ELSE [raised |-> FALSE,
          loaders |-> [loaders EXCEPT ![FirstPython(loaders)] = Overridden(sess, @)]]

\* loader lists the engine may hand back from PydocMarkdown() / load_config
OtherLoader ==
    [python |-> FALSE, modules |-> <<>>, packages |-> <<>>, search_path |-> <<>>,
     print_function |-> TRUE]
PyLoaderA ==
    [python |-> TRUE, modules |-> << <<"x">> >>, packages |-> << <<"q">> >>,
     search_path |-> << <<"s">> >>, print_function |-> TRUE]
PyLoaderB ==
    [python |-> TRUE, modules |-> <<>>, packages |-> <<>>, search_path |-> <<>>,
     print_function |-> FALSE]
LoadedConfigs ==
    {<<>>, <<OtherLoader>>, <<PyLoaderA>>, <<OtherLoader, PyLoaderA>>,
     <<PyLoaderA, PyLoaderB>>}

\* self.config is None, an in-memory object or a path
ConfigKinds == {"None", "dict", "str"}

\* RenderSession.load: every way it can end.  loaded is the loader list
\* before the overrides, config the engine object at the end of the call,
\* error the exception raised ("none": config is returned).
LoadOutcomes(sess) ==
    {[loaded |-> None, config |-> None, error |-> "engine"] :
         x \in {y \in {sess.config} : y # "None"}}
    \cup
    UNION {
        LET ov == apply_overrides(sess, cfg)
        IN  IF ov.raised
            THEN {[loaded |-> Some(cfg),
                   config |-> Some([loaders |-> ov.loaders, context |-> FALSE,
                                    filename |-> None]),
                   error |-> "ValueError"]}
            ELSE {[loaded |-> Some(cfg),
                   config |-> Some([loaders |-> ov.loaders,
                                    context |-> (sess.config = "str"),
                                    filename |-> None]),
                   error |-> "none"]}
                 \cup
                 {[loaded |-> Some(cfg),
                   config |-> Some([loaders |-> ov.loaders, context |-> FALSE,
                                    filename |-> None]),
                   error |-> "engine"] : x \in {y \in {sess.config} : y = "str"}}
        : cfg \in LoadedConfigs}

(***************************************************************************)
(* main                                                                    *)
(***************************************************************************)
\* lines 183-186: append "/" unless the directory already ends with it
normalize(d) == IF endswith(d, SEP) THEN d ELSE d \o SEP

\* line 188: package_dir.split("/")[-2]
PackageNameOf(pd) == split(pd)[Len(split(pd)) - 1]

\* the root os.walk reports for a listing entry: the top as given, or the
\* top joined with the sub-directory's name
WalkRoot(pd, entry) ==
    IF IsNone(entry.dir) THEN pd ELSE ospathjoin(pd, Val(entry.dir))

\* lines 193-195: the files of one directory that are kept
RECURSIVE KeptFiles(_, _, _)
KeptFiles(root, files, skip) ==
    IF Len(files) = 0 THEN <<>>
    ELSE (IF endswith(Head(files), PY) /\ Head(files) \notin skip
          THEN <<ospathjoin(root, Head(files))>> ELSE <<>>)
         \o KeptFiles(root, Tail(files), skip)

\* lines 190-195: the source files found by the walk, in walk order
RECURSIVE Discover(_, _, _)
Discover(pd, listing, skip) ==
    IF Len(listing) = 0 THEN <<>>
    ELSE KeptFiles(WalkRoot(pd, Head(listing)), Head(listing).files, skip)
         \o Discover(pd, Tail(listing), skip)

\* line 205: package_name not in file
NameMissing(f, name) == ~contains(f, name)

\* a variant that does not look at the skip list
SkipFileNameOnly(f, skip, name) == NameMissing(f, name)

\* line 205: the condition under which the loop continues with the next file
SkipFile(f, skip, name) == basename(f) \in skip \/ NameMissing(f, name)

\* line 209: file.replace(package_dir, docs_dir).replace(".py", ".md")
OutputFile(f, pd, dd) == replace(replace(f, pd, dd), PY, MD)

\* a variant that passes modules and packages in each other's place
MainSessionSwapped(pd, mods) ==
    NewSession("str", Some(TRUE), Some(<<pd>>), Some(<<>>), Some(mods), Some(FALSE))

\* lines 199-218: the session main constructs for one file
MainSession(pd, mods) ==
    NewSession("str", Some(TRUE), Some(<<pd>>), Some(mods), Some(<<>>), Some(FALSE))

\* a variant in which the loop goes on to the next step after an exception
AfterRaiseContinue == "loop"

\* lines 204-222: nothing catches an exception, so it leaves main
AfterRaise == "failed"

Event(op, f, mods, out) ==
    [op |-> op, idx |-> idx, file |-> f, mods |-> mods, out |-> out]

Raise(kind, newlog) ==
    /\ error' = kind
    /\ errAt' = idx
    /\ errLen' = Len(newlog)
    /\ pc' = AfterRaise

NoRaise == UNCHANGED <<error, errAt, errLen>>

f2mVars == <<file, path, result>>
argVars == <<package_dir, docs_dir, skip_files, src_arg, walk, package_name, src_files>>
loadVars == <<loaded, config>>

\* lines 183-202
Start ==
    /\ pc = "start"
    /\ package_dir' = normalize(package_dir)
    /\ docs_dir' = normalize(docs_dir)
    /\ package_name' = PackageNameOf(package_dir')
    /\ src_files' = IF IsNone(src_arg)
                    THEN Discover(package_dir', walk, skip_files)
                    ELSE Val(src_arg)
    /\ idx' = 1
    /\ pc' = "loop"
    /\ NoRaise
    /\ UNCHANGED <<f2mVars, skip_files, src_arg, walk, modules, output_file,
                   session, pydocmd, loadVars, log, dropped, made, written>>

\* lines 204-206: the file is skipped
LoopSkip ==
    /\ pc = "loop"
    /\ idx <= Len(src_files)
    /\ SkipFile(src_files[idx], skip_files, package_name)
    /\ dropped' = Append(dropped, src_files[idx])
    /\ idx' = idx + 1
    /\ NoRaise
    /\ UNCHANGED <<f2mVars, argVars, pc, modules, output_file, session, pydocmd,
                   loadVars, log, made, written>>

\* lines 204-209: the file is taken, its module name and output path computed
LoopEnter ==
    /\ pc = "loop"
    /\ idx <= Len(src_files)
    /\ ~SkipFile(src_files[idx], skip_files, package_name)
    /\ modules' = <<file2module(src_files[idx], package_dir)>>
    /\ output_file' = OutputFile(src_files[idx], package_dir, docs_dir)
    /\ log' = Append(log, Event("file2module", src_files[idx], modules', output_file'))
    /\ pc' = "makedirs"
    /\ NoRaise
    /\ UNCHANGED <<f2mVars, argVars, idx, session, pydocmd, loadVars, dropped,
                   made, written>>

\* line 204: the list is exhausted
LoopDone ==
    /\ pc = "loop"
    /\ idx > Len(src_files)
    /\ pc' = "done"
    /\ NoRaise
    /\ UNCHANGED <<f2mVars, argVars, idx, modules, output_file, session, pydocmd,
                   loadVars, log, dropped, made, written>>

\* line 210: os.makedirs(os.path.dirname(output_file), exist_ok=True); it
\* raises for the empty path, and may raise for any other
Makedirs ==
    /\ pc = "makedirs"
    /\ log' = Append(log, Event("makedirs", src_files[idx], modules, output_file))
    /\ \/ /\ dirname(output_file) # <<>>
          /\ made' = made \cup {dirname(output_file)}
          /\ pc' = "construct"
          /\ NoRaise
       \/ /\ Raise(IF dirname(output_file) = <<>> THEN "FileNotFoundError" ELSE "OSError",
                   log')
          /\ UNCHANGED made
    /\ UNCHANGED <<f2mVars, argVars, idx, modules, output_file, session, pydocmd,
                   loadVars, dropped, written>>

\* lines 211-218
Construct ==
    /\ pc = "construct"
    /\ session' = Some(MainSession(package_dir, modules))
    /\ log' = Append(log, Event("construct", src_files[idx],
                                Val(Val(session').modules), output_file))
    /\ pc' = "load"
    /\ NoRaise
    /\ UNCHANGED <<f2mVars, argVars, idx, modules, output_file, pydocmd, loadVars,
                   dropped, made, written>>

\* line 220: pydocmd = session.load()
Load ==
    /\ pc = "load"
    /\ log' = Append(log, Event("load", src_files[idx], modules, output_file))
    /\ \E o \in LoadOutcomes(Val(session)) :
        /\ loaded' = o.loaded
        /\ config' = o.config
        /\ IF o.error = "none"
           THEN pydocmd' = o.config /\ pc' = "setfilename" /\ NoRaise
           ELSE Raise(o.error, log') /\ UNCHANGED pydocmd
    /\ UNCHANGED <<f2mVars, argVars, idx, modules, output_file, session, dropped,
                   made, written>>

\* line 221: pydocmd.renderer.filename = output_file
SetFilename ==
    /\ pc = "setfilename"
    /\ pydocmd' = Some([Val(pydocmd) EXCEPT !.filename = Some(output_file)])
    /\ log' = Append(log, Event("setfilename", src_files[idx], modules, output_file))
    /\ pc' = "render"
    /\ NoRaise
    /\ UNCHANGED <<f2mVars, argVars, idx, modules, output_file, session, loadVars,
                   dropped, made, written>>

\* line 222: session.render(pydocmd); the renderer writes to its filename.
\* The iteration ends and its locals are dead.
Render ==
    /\ pc = "render"
    /\ log' = Append(log, Event("render", src_files[idx], modules,
                                Val(Val(pydocmd).filename)))
    /\ \/ /\ written' = written \cup {Val(Val(pydocmd).filename)}
          /\ idx' = idx + 1
          /\ pc' = "loop"
          /\ modules' = <<>>
          /\ output_file' = <<>>
          /\ session' = None
          /\ pydocmd' = None
          /\ loaded' = None
          /\ config' = None
          /\ NoRaise
       \/ /\ Raise("engine", log')
          /\ UNCHANGED <<written, idx, modules, output_file, session, pydocmd,
                         loadVars>>
    /\ UNCHANGED <<f2mVars, argVars, dropped, made>>

NextMain ==
    \/ Start
    \/ LoopSkip
    \/ LoopEnter
    \/ LoopDone
    \/ Makedirs
    \/ Construct
    \/ Load
    \/ SetFilename
    \/ Render

(***************************************************************************)
(* Inputs of main                                                          *)
(***************************************************************************)
A_PY == <<"a", ".", "p", "y">>
I_PY == <<"i", ".", "p", "y">>
B_MD == <<"b", ".", "m", "d">>
FileNames == {A_PY, I_PY, B_MD}
SubFileNames == {A_PY, I_PY}
DirNames == {<<"k">>, <<"d">>}

\* what os.walk can report: nothing (no such directory), or the top
\* directory followed by its sub-directories, each with its files, in the
\* order the file system lists them
SubEntries ==
    [dir : {Some(d) : d \in DirNames}, files : NoRepeatSeqs(SubFileNames, MaxDirFiles)]
SubListings ==
    {q \in SeqsUpTo(SubEntries, MaxSubdirs) :
        \A i, j \in 1..Len(q) : i # j => q[i].dir # q[j].dir}
Walks ==
    {<<>>} \cup
    {<<[dir |-> None, files |-> rf]>> \o subs :
        rf \in NoRepeatSeqs(FileNames, MaxDirFiles), subs \in SubListings}

ExplicitFiles ==
    {<<"k", "/">> \o A_PY, <<"k", "/">> \o I_PY, <<"x", "/">> \o A_PY,
     <<"k", ".", "p", "y">>, <<"k", "/", "k", "/">> \o A_PY,
     <<"k", "/", "a", ".", "m", "d">>}

Untouched ==
    /\ package_name = <<>>
    /\ src_files = <<>>
    /\ idx = 0
    /\ modules = <<>>
    /\ output_file = <<>>
    /\ pydocmd = None
    /\ loaded = None
    /\ config = None
    /\ error = "none"
    /\ log = <<>>
    /\ dropped = <<>>
    /\ made = {}
    /\ written = {}
    /\ errAt = 0
    /\ errLen = 0

NoF2M == file = <<>> /\ path = <<>> /\ result = None

\* main called on a package directory k, with a docs directory d
Init ==
    /\ NoF2M
    /\ Untouched
    /\ session = None
    /\ pc = "start"
    /\ package_dir \in {<<"k">>, <<"k", "/">>}
    /\ docs_dir \in {<<"d">>, <<"d", "/">>}
    /\ skip_files \in {{I_PY}, {}}
    /\ \/ src_arg = None /\ walk \in Walks
       \/ src_arg \in {Some(l) : l \in SeqsUpTo(ExplicitFiles, MaxFiles)} /\ walk = <<>>

Spec == Init /\ [][NextMain]_vars

\* main called with every short string as the package directory
PkgWalks ==
    {<<>>,
     <<[dir |-> None, files |-> <<I_PY, A_PY>>]>>,
     <<[dir |-> None, files |-> <<A_PY, B_MD>>],
       [dir |-> Some(<<"k">>), files |-> <<A_PY>>]>>}
PkgExplicit ==
    {<< <<"k", "/">> \o A_PY >>,
     << <<"x", "/">> \o A_PY, <<"a", "/", "k", "/">> \o A_PY >>}

InitPkg ==
    /\ NoF2M
    /\ Untouched
    /\ session = None
    /\ pc = "start"
    /\ package_dir \in SeqsUpTo({"/", "k", "a"}, MaxDirLen)
    /\ docs_dir = <<"d", "/">>
    /\ skip_files = {I_PY}
    /\ \/ src_arg = None /\ walk \in PkgWalks
       \/ src_arg \in {Some(l) : l \in PkgExplicit} /\ walk = <<>>

SpecPkg == InitPkg /\ [][NextMain]_vars

(***************************************************************************)
(* A RenderSession used on its own: load(), then render() on what load()   *)
(* returned.                                                               *)
(***************************************************************************)
OptLists == {None, Some(<<>>), Some(<< <<"m">> >>)}
OptBools == {None, Some(TRUE), Some(FALSE)}
Sessions ==
    {NewSession(c, None, sp, m, pk, py) :
        c \in ConfigKinds, sp \in OptLists, m \in OptLists, pk \in OptLists,
        py \in OptBools}

mainVars ==
    <<package_dir, docs_dir, skip_files, src_arg, walk, package_name, src_files,
      idx, modules, output_file, dropped, made>>

InitSession ==
    /\ NoF2M
    /\ Untouched
    /\ package_dir = <<>> /\ docs_dir = <<>> /\ skip_files = {}
    /\ src_arg = None /\ walk = <<>>
    /\ pc = "new"
    /\ session \in {Some(q) : q \in Sessions}

\* session.load(), lines 99-122
SessionLoad ==
    /\ pc = "new"
    /\ log' = Append(log, Event("load", <<>>, <<>>, <<>>))
    /\ \E o \in LoadOutcomes(Val(session)) :
        /\ loaded' = o.loaded
        /\ config' = o.config
        /\ IF o.error = "none"
           THEN pydocmd' = o.config /\ pc' = "loaded" /\ NoRaise
           ELSE Raise(o.error, log') /\ UNCHANGED pydocmd
    /\ UNCHANGED <<f2mVars, mainVars, session, written>>

\* session.render(config), lines 124-142, on the configuration load() returned
SessionRender ==
    /\ pc = "loaded"
    /\ log' = Append(log, Event("render", <<>>, <<>>, <<>>))
    /\ \/ pc' = "rendered" /\ NoRaise
       \/ Raise("engine", log')
    /\ UNCHANGED <<f2mVars, mainVars, session, pydocmd, loadVars, written>>

NextSession ==
    \/ SessionLoad
    \/ SessionRender

SpecSession == InitSession /\ [][NextSession]_vars

(***************************************************************************)
(* file2module called on its own                                           *)
(***************************************************************************)
Roots ==
    {<<>>, <<"/", "a", "/">>, <<"/", "a">>, <<"a", ".", "p", "y">>, <<"a", ".">>,
     <<"a", ".", "p">>}
StemChars == {"/", ".", "a", "b"}
Suffixes == {PY, <<>>, <<"p", "y">>, <<"y">>}

InitF2M ==
    /\ Untouched
    /\ session = None
    /\ package_dir = <<>> /\ docs_dir = <<>> /\ skip_files = {}
    /\ src_arg = None /\ walk = <<>>
    /\ pc = "call"
    /\ result = None
    /\ path \in Roots
    /\ \E stem \in SeqsUpTo(StemChars, MaxStem), suffix \in Suffixes :
           file = path \o stem \o suffix

\* lines 145-163
Resolve ==
    /\ pc = "call"
    /\ result' = Some(file2module(file, path))
    /\ pc' = "return"
    /\ NoRaise
    /\ UNCHANGED <<file, path, mainVars, session, pydocmd, loadVars, log, written>>

NextF2M == Resolve

SpecF2M == InitF2M /\ [][NextF2M]_vars

(***************************************************************************)
(* Properties                                                              *)
(***************************************************************************)
\* a dotted name: not empty, no separator, no leading or trailing dot, no
\* two adjacent dots
WellFormedModule(m) ==
    /\ Len(m) > 0
    /\ m[1] # "."
    /\ m[Len(m)] # "."
    /\ \A i \in 1..Len(m) : m[i] # "/"
    /\ \A i \in 1..(Len(m) - 1) : ~(m[i] = "." /\ m[i + 1] = ".")

\* file = path \o stem \o ".py"
HasStem(f, p) == startswith(f, p) /\ Len(f) >= Len(p) + 3 /\ endswith(f, PY)
StemOf(f, p) == SubSeq(f, Len(p) + 1, Len(f) - 3)

\* C1 as stated: whenever the root is a prefix of the file path and the path
\* ends in ".py", file2module returns a well-formed dotted name.
C1_AnyPyFile ==
    (pc = "return" /\ startswith(file, path) /\ endswith(file, PY))
        => WellFormedModule(Val(result))

\* the part of f after the root p, without its ".py" suffix
RelStem(f, p) ==
    LET rel == SubSeq(f, Len(p) + 1, Len(f))
    IN  IF Len(rel) >= 3 /\ SubSeq(rel, Len(rel) - 2, Len(rel)) = PY
        THEN SubSeq(rel, 1, Len(rel) - 3) ELSE rel

\* no segment of s starts or ends with "." or has two adjacent dots, and
\* some segment is not empty
PlainSegments(s) ==
    /\ \E i \in 1..Len(s) : s[i] # "/"
    /\ \A i \in 1..Len(s) :
           s[i] = "." => /\ 1 < i /\ i < Len(s)
                         /\ s[i - 1] \notin {".", "/"}
                         /\ s[i + 1] \notin {".", "/"}

\* C1 as amended: when the root is a prefix of the file path, the path ends
\* in ".py", and the part after the root without its ".py" suffix has a
\* non-empty segment and no segment that starts or ends with "." or has
\* two adjacent dots, file2module returns a well-formed dotted name.
C1_PlainSegments ==
    (/\ pc = "return"
     /\ startswith(file, path)
     /\ endswith(file, PY)
     /\ PlainSegments(RelStem(file, path)))
        => WellFormedModule(Val(result))

C1_Witness ==
    /\ pc = "return"
    /\ path = <<"/", "a", "/">>
    /\ file = <<"/", "a", "/", "a", "/", "b", ".", "p", "y">>
    /\ result = Some(<<"a", ".", "b">>)

\* C2: no call is ever made for a file whose base name is in skip_files:
\* not file2module, makedirs, the session's construction, load, the
\* setting of the output filename or render.
C2_SkipListEnforced ==
    \A k \in 1..Len(log) :
        SubSeq(log[k].file, LastSep(log[k].file) + 1, Len(log[k].file)) \notin skip_files

C2_Witness ==
    /\ pc = "done"
    /\ ~IsNone(src_arg)
    /\ \E k \in 1..Len(dropped) : basename(dropped[k]) \in skip_files
    /\ written # {}

\* the loader _apply_overrides works on: the first Python loader
FoundLoader(loaders) ==
    CHOOSE i \in 1..Len(loaders) :
        loaders[i].python /\ \A k \in 1..(i - 1) : ~loaders[k].python

\* C3 as stated: after load() found a Python loader, each of its fields
\* modules, packages and search_path equals the session's override when
\* that override is not None (the empty list included), and is unchanged
\* when it is None.
C3_SuppliedOverridesReplace ==
    (pc \in {"loaded", "rendered"} /\ OverridesRequested(Val(session)))
        => LET i == FoundLoader(Val(loaded))
               before == Val(loaded)[i]
               after == Val(config).loaders[i]
               sess == Val(session)
           IN  /\ after.modules =
                     IF IsNone(sess.modules) THEN before.modules ELSE Val(sess.modules)
               /\ after.packages =
                     IF IsNone(sess.packages) THEN before.packages ELSE Val(sess.packages)
               /\ after.search_path =
                     IF IsNone(sess.search_path) THEN before.search_path
                     ELSE Val(sess.search_path)

\* an override is requested: a non-empty modules, packages or search_path,
\* or a py2 flag that is not None
Requested(sess) ==
    \/ sess.modules \notin {None, Some(<<>>)}
    \/ sess.packages \notin {None, Some(<<>>)}
    \/ sess.search_path \notin {None, Some(<<>>)}
    \/ sess.py2 # None

\* C4: when the configuration load() read has no Python loader and an
\* override is requested, load() raises ValueError, returns no
\* configuration, has not initialised the engine context, has changed no
\* loader, and nothing has been rendered.
C4_MissingLoaderFails ==
    (/\ loaded # None
     /\ \A i \in 1..Len(Val(loaded)) : ~Val(loaded)[i].python
     /\ Requested(Val(session)))
        => /\ pc = "failed"
           /\ error = "ValueError"
           /\ pydocmd = None
           /\ ~Val(config).context
           /\ Val(config).loaders = Val(loaded)
           /\ \A k \in 1..Len(log) : log[k].op # "render"

C4_Witness ==
    /\ pc = "failed"
    /\ error = "ValueError"
    /\ loaded = Some(<<OtherLoader>>)
    /\ Val(session).packages = Some(<< <<"m">> >>)
    /\ Val(session).modules = None
    /\ Val(session).py2 = None

\* C5: once a file's directory creation, load or render has raised, main
\* has ended with that error: no call is made after the one that raised,
\* none for a later file, none twice for the failed file, and the outputs
\* rendered for the files before it are still there.
C5_FailureAborts ==
    errAt # 0
        => /\ pc = "failed"
           /\ error # "none"
           /\ idx = errAt
           /\ Len(log) = errLen
           /\ \A k \in 1..Len(log) : log[k].idx <= errAt
           /\ \A k, l \in 1..Len(log) :
                  (k # l /\ log[k].idx = errAt /\ log[l].idx = errAt)
                      => log[k].op # log[l].op
           /\ \A k \in 1..Len(log) :
                  (log[k].op = "render" /\ log[k].idx < errAt) => log[k].out \in written

C5_Witness ==
    /\ pc = "failed"
    /\ error = "engine"
    /\ errAt = 2
    /\ errAt < Len(src_files)
    /\ log[Len(log)].op = "render"
    /\ written # {}

\* C6 as stated: for a processed file that starts with the package
\* directory and ends in ".py", the output path is the docs directory, then
\* the file's path relative to the package directory with the trailing
\* ".py" replaced by ".md".
C6_OutputMirrorsSource ==
    \A k \in 1..Len(log) :
        HasStem(log[k].file, package_dir)
            => log[k].out = docs_dir \o StemOf(log[k].file, package_dir) \o MD

\* C7 as stated: after normalisation the package directory ends with "/",
\* and package_name is its last non-empty "/"-separated segment.
C7_PackageNameIsLastSegment ==
    pc # "start"
        => /\ package_dir[Len(package_dir)] = "/"
           /\ LET segs == SelectSeq(split(package_dir), LAMBDA g : g # <<>>)
              IN  segs # <<>> => package_name = segs[Len(segs)]

StepOrder == <<"file2module", "makedirs", "construct", "load", "setfilename", "render">>
StepNo(op) == CHOOSE i \in 1..Len(StepOrder) : StepOrder[i] = op

\* C8: the calls are made file by file in the order of src_files, and for
\* each file in the order file2module, makedirs, RenderSession(...), load,
\* set filename, render; a new file starts only after the render of the one
\* before; the session's modules are exactly the one module name resolved
\* for the file; render runs with the filename set to the file's output path.
C8_StepOrder ==
    \A k \in 1..Len(log) :
        /\ log[k].idx \in 1..Len(src_files)
        /\ log[k].file = src_files[log[k].idx]
        /\ IF k = 1 THEN log[k].op = "file2module"
           ELSE IF log[k].idx = log[k - 1].idx
                THEN StepNo(log[k].op) = StepNo(log[k - 1].op) + 1
                ELSE /\ log[k].op = "file2module"
                     /\ log[k - 1].op = "render"
                     /\ log[k].idx > log[k - 1].idx
        /\ log[k].op = "construct"
               => /\ Len(log[k].mods) = 1
                  /\ log[k].mods = log[k - 2].mods
        /\ log[k].op = "render"
               => /\ log[k - 1].op = "setfilename"
                  /\ log[k].out = log[k - 1].out
                  /\ log[k].out = log[k - 5].out

C8_Witness ==
    /\ pc = "done"
    /\ Len(log) = 12
    /\ log[6].op = "render"
    /\ log[7].op = "file2module"
    /\ log[7].idx > log[6].idx

\* the files under the package directory that end in ".py" and whose base
\* name is not in skip_files
FilesUnderPackage ==
    UNION {{ospathjoin(WalkRoot(package_dir, walk[i]), walk[i].files[j]) :
               j \in {b \in 1..Len(walk[i].files) :
                          /\ endswith(walk[i].files[b], PY)
                          /\ walk[i].files[b] \notin skip_files}} :
           i \in 1..Len(walk)}

\* C9: when the files are discovered by the walk, the loop skips none of
\* them, and a run that ends normally has processed exactly the files under
\* the package directory that end in ".py" and are not skip-listed.
C9_AutoDiscoveryKeepsAll ==
    (src_arg = None /\ pc # "start")
        => /\ dropped = <<>>
           /\ pc = "done"
                  => {log[k].file : k \in {l \in 1..Len(log) : log[l].op = "file2module"}}
                         = FilesUnderPackage

C9_Witness ==
    /\ src_arg = None
    /\ pc = "done"
    /\ package_dir = <<"a", "/", "k", "/">>
    /\ package_name = <<"k">>
    /\ Cardinality(written) = 2

\* C10 as stated, for the files that start with the package directory and
\* end in ".py": two different processed files never have the same output
\* path.
C10_OutputsDistinct ==
    \A k, l \in 1..Len(log) :
        (/\ log[k].op = "setfilename"
         /\ log[l].op = "setfilename"
         /\ HasStem(log[k].file, package_dir)
         /\ HasStem(log[l].file, package_dir)
         /\ log[k].file # log[l].file)
            => log[k].out # log[l].out

====
